---- MODULE Spec2Model ----
(***************************************************************************)
(* A model of the two signal emitters of wesplot's scripts/ directory:     *)
(*   scripts/fake_data.py       noisy sine, n columns, 2 Hz                *)
(*   scripts/high_freq_data.py  plain sine, `timestamp value`, 100 Hz      *)
(*                                                                         *)
(* Reals are fixed point.  Time is an integer number of milliseconds, a    *)
(* value is an integer number of thousandths, a random draw in [0,1) is    *)
(* k / RandDen with k in 0 .. RandDen-1, and math.sin is Bhaskara's        *)
(* rational approximation on a grid of SinGrid steps per half turn.        *)
(* Text is a sequence of one-character strings.                            *)
(***************************************************************************)
EXTENDS Integers, Sequences, FiniteSets, TLC

VARIABLES
    script,      \* which of the two scripts this process runs
    argv,        \* the command line (fake_data.py only)
    tty,         \* stdout is a terminal (line buffered) or a pipe (block buffered)
    pipe_open,   \* the consumer still holds the read end of stdout
    pc,          \* position of the interpreter in the script
    args,        \* argparse namespace: num_columns, csv
    now,         \* the wall clock, in milliseconds
    start,       \* `start`
    separator,   \* `separator`
    t,           \* high_freq_data.py `t`
    x,           \* high_freq_data.py `x`
    y,           \* `y`
    data,        \* fake_data.py `data`: the list of formatted values
    i,           \* the for loop's index
    cols,        \* history: the clock readings and draws behind each entry of data
    draws,       \* number of random.random() calls made so far
    tick_draws,  \* history: value of draws when the current tick began
    tick_reads,  \* history: number of time.time() calls made in the current tick
    emitted,     \* history: the lines print() has written in the current tick
    buffer,      \* lines held in the stdout buffer, not yet handed to the consumer
    delivered,   \* number of lines handed to the consumer
    written,     \* number of lines print() has written
    wake,        \* end of the most recent time.sleep()
    slept,       \* history: number of time.sleep() calls that have returned
    ticks        \* number of loop iterations begun

vars == << script, argv, tty, pipe_open, pc, args, now, start, separator, t, x, y,
           data, i, cols, draws, tick_draws, tick_reads, emitted, buffer,
           delivered, written, wake, slept, ticks >>

-----------------------------------------------------------------------------
(* Bounds of the model *)

\* loop iterations explored per run
MaxTicks == 2
\* random.random() returns k / RandDen, k in 0 .. RandDen - 1
RandDen == 2
\* a long stall (ms) of the process at a sleep: time.sleep() only bounds the wait from below
Stall == 2500
\* the clock (ms) at the script's first reading of it
Boot == 1700

\* time (ms) the clock moves between two statements
Jitter == { 0, 1 }
Overshoot == {0, Stall}
Draws == 0 .. (RandDen - 1)

-----------------------------------------------------------------------------
(* Fixed point *)

\* milliseconds per second: time.time() and time.sleep() count seconds
TimeScale == 1000
\* thousandths per unit of a value
ValScale == 1000
\* steps per half turn of the sine's argument
SinGrid == 500

\* math.sin(2*pi * num/den), in thousandths, for num >= 0 and den > 0
Sin(num, den) ==
    LET r    == num % den
        pos  == 2 * r < den
        a    == IF pos THEN (2 * r * SinGrid) \div den
                       ELSE ((2 * r - den) * SinGrid) \div den
        p    == a * (SinGrid - a)
        v    == (16 * ValScale * p) \div (5 * SinGrid * SinGrid - 4 * p)
    IN  IF pos THEN v ELSE -v

-----------------------------------------------------------------------------
(* Text *)

DigitChar == << "0", "1", "2", "3", "4", "5", "6", "7", "8", "9" >>

RECURSIVE Digits(_)
Digits(n) ==
    IF n < 10 THEN << DigitChar[n + 1] >>
    ELSE Digits(n \div 10) \o << DigitChar[(n % 10) + 1] >>

\* str() of a float given in thousandths: sign, integer part, ".", and the
\* fraction without trailing zeros but with at least one digit
Str(v) ==
    LET a    == IF v < 0 THEN -v ELSE v
        ip   == a \div ValScale
        fp   == a % ValScale
        d1   == DigitChar[(fp \div 100) + 1]
        d2   == DigitChar[((fp \div 10) % 10) + 1]
        d3   == DigitChar[(fp % 10) + 1]
        frac == IF fp % 100 = 0 THEN << d1 >>
                ELSE IF fp % 10 = 0 THEN << d1, d2 >>
                ELSE << d1, d2, d3 >>
    IN  (IF v < 0 THEN << "-" >> ELSE << >>) \o Digits(ip) \o << "." >> \o frac

\* sep.join(parts)
RECURSIVE Join(_, _)
Join(sep, parts) ==
    IF parts = << >> THEN << >>
    ELSE IF Len(parts) = 1 THEN parts[1]
    ELSE parts[1] \o sep \o Join(sep, Tail(parts))

IsPrefix(p, s) == Len(p) <= Len(s) /\ SubSeq(s, 1, Len(p)) = p

\* s.split(sep) of the Python library, for a non-empty sep
RECURSIVE SplitFrom(_, _, _)
SplitFrom(s, sep, cur) ==
    IF s = << >> THEN << cur >>
    ELSE IF IsPrefix(sep, s)
         THEN << cur >> \o SplitFrom(SubSeq(s, Len(sep) + 1, Len(s)), sep, << >>)
         ELSE SplitFrom(Tail(s), sep, Append(cur, Head(s)))

Split(s, sep) == SplitFrom(s, sep, << >>)

-----------------------------------------------------------------------------
(* fake_data.py: configuration *)

amplitude == 10
shift == 5
period == 10
\* sleep_time = 0.5 s, in milliseconds
sleep_time == 500
amplitude_noise == 2
period_noise == 2

-----------------------------------------------------------------------------
(* fake_data.py: the command line *)

IntOf == ("0" :> 0) @@ ("1" :> 1) @@ ("2" :> 2)

\* the command lines explored
ArgvSet ==
    { << >>,
      << "--csv" >>,
      << "-n", "0" >>,
      << "--num-columns", "1" >>,
      << "-n", "1", "-n", "2" >>,
      << "--csv", "-n", "2" >>,
      << "--csv", "-n", "0" >>,
      << "-n", "x" >>,
      << "-n" >>,
      << "-n", "--csv" >>,
      << "--bogus" >>,
      << "2" >>,
      << "--csv", "-n", "1", "x" >> }

Defaults == [ num_columns |-> 1, csv |-> FALSE ]

\* parser.parse_args(): the namespace, or ok = FALSE where argparse calls
\* parser.error() (an option without its integer, an unknown option, a
\* positional argument)
RECURSIVE ParseFrom(_, _)
ParseFrom(toks, ns) ==
    IF toks = << >> THEN [ ok |-> TRUE, ns |-> ns ]
    ELSE IF Head(toks) \in { "-n", "--num-columns" }
         THEN IF Len(toks) >= 2 /\ toks[2] \in DOMAIN IntOf
              THEN ParseFrom(SubSeq(toks, 3, Len(toks)),
                             [ ns EXCEPT !.num_columns = IntOf[toks[2]] ])
              ELSE [ ok |-> FALSE, ns |-> ns ]
    ELSE IF Head(toks) = "--csv"
         THEN ParseFrom(Tail(toks), [ ns EXCEPT !.csv = TRUE ])
    ELSE [ ok |-> FALSE, ns |-> ns ]

parse_args(a) == ParseFrom(a, Defaults)

-----------------------------------------------------------------------------
(* The runtime: clock, random source, stdout *)

Running == pc \notin { "usage_error", "ZeroDivisionError", "BrokenPipeError", "killed" }

\* print(line): the line enters the stdout buffer; a terminal is line
\* buffered, so the newline hands it on at once
StdoutWrite(line) ==
    /\ written' = written + 1
    /\ emitted' = Append(emitted, line)
    /\ IF tty
       THEN /\ buffer' = << >>
            /\ delivered' = delivered + Len(buffer) + 1
       ELSE /\ buffer' = Append(buffer, line)
            /\ delivered' = delivered

\* sys.stdout.flush() followed by a jump to `next`: the buffered lines reach
\* the consumer, or the write fails because the consumer has gone
Flush(next) ==
    IF buffer = << >> THEN
        /\ pc' = next
        /\ UNCHANGED << buffer, delivered >>
    ELSE IF pipe_open THEN
        /\ pc' = next
        /\ buffer' = << >>
        /\ delivered' = delivered + Len(buffer)
    ELSE
        /\ pc' = "BrokenPipeError"
        /\ UNCHANGED << buffer, delivered >>

\* the consumer closes its end of the pipe
ConsumerCloses ==
    /\ Running
    /\ ~tty
    /\ pipe_open
    /\ pipe_open' = FALSE
    /\ UNCHANGED << script, argv, tty, pc, args, now, start, separator, t, x, y,
                    data, i, cols, draws, tick_draws, tick_reads, emitted, buffer,
                    delivered, written, wake, slept, ticks >>

\* an external signal ends the process; its memory is gone, what it wrote
\* to stdout stays where it is
Kill ==
    /\ Running
    /\ pc' = "killed"
    /\ args' = Defaults
    /\ start' = 0
    /\ separator' = << >>
    /\ t' = 0
    /\ x' = 0
    /\ y' = 0
    /\ data' = << >>
    /\ i' = 0
    /\ cols' = << >>
    /\ UNCHANGED << script, argv, tty, pipe_open, now, draws, tick_draws, tick_reads,
                    emitted, buffer, delivered, written, wake, slept, ticks >>

-----------------------------------------------------------------------------
(* fake_data.py *)

\* the base sinusoid at elapsed time e (ms), in thousandths
Base(e) == amplitude * Sin(e, period * TimeScale) + shift * ValScale

\* the noise term at elapsed time e (ms) for draws k/RandDen and kp/RandDen, kp > 0:
\*   random.random() * amplitude_noise
\*     * math.sin(2 * math.pi * e / random.random() * period_noise)
\* `/` and `*` associate to the left: ((2*pi*e) / r') * period_noise
Noise(e, k, kp) ==
    (k * amplitude_noise * Sin(e * period_noise * RandDen, TimeScale * kp)) \div RandDen

\* ParseArgs with a parser that ignores what it cannot parse and goes on
\* with the defaults
ParseArgsLenient ==
    /\ script = "fake_data"
    /\ pc = "parse"
    /\ args' = parse_args(argv).ns
    /\ pc' = "start"
    /\ UNCHANGED << script, argv, tty, pipe_open, now, start, separator, t, x, y,
                    data, i, cols, draws, tick_draws, tick_reads, emitted, buffer,
                    delivered, written, wake, slept, ticks >>

\* lines 9-12
ParseArgs ==
    /\ script = "fake_data"
    /\ pc = "parse"
    /\ IF parse_args(argv).ok
       THEN /\ args' = parse_args(argv).ns
            /\ pc' = "start"
       ELSE /\ args' = args
            /\ pc' = "usage_error"
    /\ UNCHANGED << script, argv, tty, pipe_open, now, start, separator, t, x, y,
                    data, i, cols, draws, tick_draws, tick_reads, emitted, buffer,
                    delivered, written, wake, slept, ticks >>

\* line 22
Start ==
    /\ script = "fake_data"
    /\ pc = "start"
    /\ start' = now
    /\ now' = now
    /\ pc' = "separator"
    /\ UNCHANGED << script, argv, tty, pipe_open, args, separator, t, x, y, data, i,
                    cols, draws, tick_draws, tick_reads, emitted, buffer, delivered,
                    written, wake, slept, ticks >>

\* Separator with the --csv flag ignored
SeparatorIgnoresCsv ==
    /\ script = "fake_data"
    /\ pc = "separator"
    /\ separator' = << " ", " ", " " >>
    /\ pc' = "loop"
    /\ UNCHANGED << script, argv, tty, pipe_open, args, now, start, t, x, y, data, i,
                    cols, draws, tick_draws, tick_reads, emitted, buffer, delivered,
                    written, wake, slept, ticks >>

\* lines 24-26
Separator ==
    /\ script = "fake_data"
    /\ pc = "separator"
    /\ separator' = IF args.csv THEN << "," >> ELSE << " ", " ", " " >>
    /\ pc' = "loop"
    /\ UNCHANGED << script, argv, tty, pipe_open, args, now, start, t, x, y, data, i,
                    cols, draws, tick_draws, tick_reads, emitted, buffer, delivered,
                    written, wake, slept, ticks >>

\* lines 28-30: a tick begins; y is computed from a clock reading of its own
LoopTop ==
    /\ script = "fake_data"
    /\ pc = "loop"
    /\ ticks < MaxTicks
    /\ \E d \in Jitter :
          /\ now' = now + d
          /\ y' = Base(now + d - start)
    /\ data' = << >>
    /\ cols' = << >>
    /\ i' = 0
    /\ ticks' = ticks + 1
    /\ tick_draws' = draws
    /\ tick_reads' = 1
    /\ emitted' = << >>
    /\ pc' = "for"
    /\ UNCHANGED << script, argv, tty, pipe_open, args, start, separator, t, x,
                    draws, buffer, delivered, written, wake, slept >>

\* Column with one draw used both as the noise amplitude and in the noise period
ColumnOneDraw ==
    /\ script = "fake_data"
    /\ pc = "for"
    /\ i < args.num_columns
    /\ \E d1 \in Jitter, d2 \in Jitter, k \in Draws :
          LET tb == now + d1
              tn == now + d1 + d2
          IN  /\ now' = tn
              /\ draws' = draws + 1
              /\ tick_reads' = tick_reads + 2
              /\ IF k = 0
                 THEN /\ pc' = "ZeroDivisionError"
                      /\ UNCHANGED << data, cols, i >>
                 ELSE /\ pc' = "for"
                      /\ data' = Append(data,
                                   Str(Base(tb - start) + Noise(tn - start, k, k)))
                      /\ cols' = Append(cols,
                                   [ t_base |-> tb, t_noise |-> tn,
                                     r |-> k, rp |-> k,
                                     r_draw |-> draws + 1, rp_draw |-> draws + 1,
                                     value |-> Base(tb - start) + Noise(tn - start, k, k) ])
                      /\ i' = i + 1
    /\ UNCHANGED << script, argv, tty, pipe_open, args, start, separator, t, x, y,
                    tick_draws, emitted, buffer, delivered, written, wake, slept, ticks >>

\* Column as the body of a loop that tests its bound after the first pass
ColumnAtLeastOnce ==
    /\ script = "fake_data"
    /\ pc = "for"
    /\ i < args.num_columns \/ i = 0
    /\ \E d1 \in Jitter, d2 \in Jitter, k \in Draws, kp \in Draws :
          LET tb == now + d1
              tn == now + d1 + d2
          IN  /\ now' = tn
              /\ draws' = draws + 2
              /\ tick_reads' = tick_reads + 2
              /\ IF kp = 0
                 THEN /\ pc' = "ZeroDivisionError"
                      /\ UNCHANGED << data, cols, i >>
                 ELSE /\ pc' = "for"
                      /\ data' = Append(data,
                                   Str(Base(tb - start) + Noise(tn - start, k, kp)))
                      /\ cols' = Append(cols,
                                   [ t_base |-> tb, t_noise |-> tn,
                                     r |-> k, rp |-> kp,
                                     r_draw |-> draws + 1, rp_draw |-> draws + 2,
                                     value |-> Base(tb - start) + Noise(tn - start, k, kp) ])
                      /\ i' = i + 1
    /\ UNCHANGED << script, argv, tty, pipe_open, args, start, separator, t, x, y,
                    tick_draws, emitted, buffer, delivered, written, wake, slept, ticks >>

\* lines 32-35, one iteration of the for loop.  Line 34 is evaluated left to
\* right: time.time(), random.random(), time.time(), random.random(), and
\* the division raises ZeroDivisionError when the second draw is 0.0
Column ==
    /\ script = "fake_data"
    /\ pc = "for"
    /\ i < args.num_columns
    /\ \E d1 \in Jitter, d2 \in Jitter, k \in Draws, kp \in Draws :
          LET tb == now + d1
              tn == now + d1 + d2
          IN  /\ now' = tn
              /\ draws' = draws + 2
              /\ tick_reads' = tick_reads + 2
              /\ IF kp = 0
                 THEN /\ pc' = "ZeroDivisionError"
                      /\ UNCHANGED << data, cols, i >>
                 ELSE /\ pc' = "for"
                      /\ data' = Append(data,
                                   Str(Base(tb - start) + Noise(tn - start, k, kp)))
                      /\ cols' = Append(cols,
                                   [ t_base |-> tb, t_noise |-> tn,
                                     r |-> k, rp |-> kp,
                                     r_draw |-> draws + 1, rp_draw |-> draws + 2,
                                     value |-> Base(tb - start) + Noise(tn - start, k, kp) ])
                      /\ i' = i + 1
    /\ UNCHANGED << script, argv, tty, pipe_open, args, start, separator, t, x, y,
                    tick_draws, emitted, buffer, delivered, written, wake, slept, ticks >>

\* EmitLine followed by the sleep at once, the flush forgotten
EmitLineNoFlush ==
    /\ script = "fake_data"
    /\ pc = "for"
    /\ i >= args.num_columns
    /\ StdoutWrite(Join(separator, data))
    /\ pc' = "sleep"
    /\ UNCHANGED << script, argv, tty, pipe_open, args, now, start, separator, t, x,
                    y, data, i, cols, draws, tick_draws, tick_reads, wake, slept, ticks >>

\* line 37, reached when range(num_columns) is exhausted
EmitLine ==
    /\ script = "fake_data"
    /\ pc = "for"
    /\ i >= args.num_columns
    /\ StdoutWrite(Join(separator, data))
    /\ pc' = "flush"
    /\ UNCHANGED << script, argv, tty, pipe_open, args, now, start, separator, t, x,
                    y, data, i, cols, draws, tick_draws, tick_reads, wake, slept, ticks >>

\* line 38
FlushLine ==
    /\ script = "fake_data"
    /\ pc = "flush"
    /\ Flush("sleep")
    /\ UNCHANGED << script, argv, tty, pipe_open, args, now, start, separator, t, x,
                    y, data, i, cols, draws, tick_draws, tick_reads, emitted, written,
                    wake, slept, ticks >>

\* line 39: the process suspends until the clock reaches wake
Sleep ==
    /\ script = "fake_data"
    /\ pc = "sleep"
    /\ wake' = now + sleep_time
    /\ slept' = slept
    /\ pc' = "sleeping"
    /\ UNCHANGED << script, argv, tty, pipe_open, args, now, start, separator, t, x,
                    y, data, i, cols, draws, tick_draws, tick_reads, emitted, buffer,
                    delivered, written, ticks >>

\* line 39 returns, at wake or later
Wake ==
    /\ script = "fake_data"
    /\ pc = "sleeping"
    /\ \E d \in Overshoot : now' = wake + d
    /\ slept' = slept + 1
    /\ pc' = "loop"
    /\ UNCHANGED << script, argv, tty, pipe_open, args, start, separator, t, x, y,
                    data, i, cols, draws, tick_draws, tick_reads, emitted, buffer,
                    delivered, written, wake, ticks >>

-----------------------------------------------------------------------------
(* high_freq_data.py *)

HZ == 100
\* INTERVAL = 1 / HZ s, in milliseconds
INTERVAL == TimeScale \div HZ

hf_amplitude == 10
hf_shift == 5
hf_period == 20

\* lines 12-13, at elapsed time e (ms), in thousandths
f(e) == hf_amplitude * Sin(e, hf_period * TimeScale) + hf_shift * ValScale

\* line 15
HFStart ==
    /\ script = "high_freq_data"
    /\ pc = "hf_start"
    /\ start' = now
    /\ now' = now
    /\ pc' = "hf_loop"
    /\ UNCHANGED << script, argv, tty, pipe_open, args, separator, t, x, y, data, i,
                    cols, draws, tick_draws, tick_reads, emitted, buffer, delivered,
                    written, wake, slept, ticks >>

\* HFCompute with the elapsed time taken from a second clock reading
HFComputeTwoReadings ==
    /\ script = "high_freq_data"
    /\ pc = "hf_loop"
    /\ ticks < MaxTicks
    /\ \E d \in Jitter, d2 \in Jitter :
          /\ now' = now + d + d2
          /\ t' = now + d
          /\ x' = now + d + d2 - start
          /\ y' = f(now + d + d2 - start)
    /\ ticks' = ticks + 1
    /\ tick_reads' = 2
    /\ emitted' = << >>
    /\ pc' = "hf_print"
    /\ UNCHANGED << script, argv, tty, pipe_open, args, start, separator, data, i,
                    cols, draws, tick_draws, buffer, delivered, written, wake, slept >>

\* lines 17-20: a tick begins with one clock reading
HFCompute ==
    /\ script = "high_freq_data"
    /\ pc = "hf_loop"
    /\ ticks < MaxTicks
    /\ \E d \in Jitter :
          /\ now' = now + d
          /\ t' = now + d
          /\ x' = now + d - start
          /\ y' = f(now + d - start)
    /\ ticks' = ticks + 1
    /\ tick_reads' = 1
    /\ emitted' = << >>
    /\ pc' = "hf_print"
    /\ UNCHANGED << script, argv, tty, pipe_open, args, start, separator, data, i,
                    cols, draws, tick_draws, buffer, delivered, written, wake, slept >>

\* line 21
HFPrint ==
    /\ script = "high_freq_data"
    /\ pc = "hf_print"
    /\ StdoutWrite(Str(t) \o << " " >> \o Str(y))
    /\ pc' = "hf_sleep"
    /\ UNCHANGED << script, argv, tty, pipe_open, args, now, start, separator, t, x,
                    y, data, i, cols, draws, tick_draws, tick_reads, wake, slept, ticks >>

\* line 22: the process suspends until the clock reaches wake
HFSleep ==
    /\ script = "high_freq_data"
    /\ pc = "hf_sleep"
    /\ wake' = now + INTERVAL
    /\ slept' = slept
    /\ pc' = "hf_sleeping"
    /\ UNCHANGED << script, argv, tty, pipe_open, args, now, start, separator, t, x,
                    y, data, i, cols, draws, tick_draws, tick_reads, emitted, buffer,
                    delivered, written, ticks >>

\* line 22 returns, at wake or later
HFWake ==
    /\ script = "high_freq_data"
    /\ pc = "hf_sleeping"
    /\ \E d \in Overshoot : now' = wake + d
    /\ slept' = slept + 1
    /\ pc' = "hf_flush"
    /\ UNCHANGED << script, argv, tty, pipe_open, args, start, separator, t, x, y,
                    data, i, cols, draws, tick_draws, tick_reads, emitted, buffer,
                    delivered, written, wake, ticks >>

\* line 23
HFFlush ==
    /\ script = "high_freq_data"
    /\ pc = "hf_flush"
    /\ Flush("hf_loop")
    /\ UNCHANGED << script, argv, tty, pipe_open, args, now, start, separator, t, x,
                    y, data, i, cols, draws, tick_draws, tick_reads, emitted, written,
                    wake, slept, ticks >>

-----------------------------------------------------------------------------
(* The process *)

Init ==
    /\ script \in { "fake_data", "high_freq_data" }
    /\ argv \in (IF script = "fake_data" THEN ArgvSet ELSE { << >> })
    /\ tty \in BOOLEAN
    /\ pipe_open = TRUE
    /\ pc = (IF script = "fake_data" THEN "parse" ELSE "hf_start")
    /\ args = Defaults
    /\ now = Boot
    /\ start = 0
    /\ separator = << >>
    /\ t = 0
    /\ x = 0
    /\ y = 0
    /\ data = << >>
    /\ i = 0
    /\ cols = << >>
    /\ draws = 0
    /\ tick_draws = 0
    /\ tick_reads = 0
    /\ emitted = << >>
    /\ buffer = << >>
    /\ delivered = 0
    /\ written = 0
    /\ wake = 0
    /\ slept = 0
    /\ ticks = 0

Next ==
    \/ ParseArgs
    \/ Start
    \/ Separator
    \/ LoopTop
    \/ Column
    \/ EmitLine
    \/ FlushLine
    \/ Sleep
    \/ Wake
    \/ HFStart
    \/ HFCompute
    \/ HFPrint
    \/ HFSleep
    \/ HFWake
    \/ HFFlush
    \/ ConsumerCloses
    \/ Kill

Spec == Init /\ [][Next]_vars

-----------------------------------------------------------------------------
(* Properties *)

Fake == script = "fake_data"
HighFreq == script = "high_freq_data"

\* the command line's column count, where the command line parses
NumColumns == parse_args(argv).ns.num_columns
\* the separator the command line asks for
AskedSeparator == IF parse_args(argv).ns.csv THEN << "," >> ELSE << " ", " ", " " >>
\* positions of fake_data.py between the write of a tick's line and the next tick
AfterWrite == { "flush", "sleep", "sleeping" }

\* C1: in high_freq_data.py no written line is still in the stdout buffer
\* while the emitter sleeps: the flush of a tick's line precedes its sleep.
C1_FlushedBeforeSleep ==
    (HighFreq /\ pc = "hf_sleeping") => buffer = << >>

\* C2: in fake_data.py a tick writes, flushes and sleeps in that order: while
\* the emitter sleeps every written line has reached the consumer, and a line
\* is written only when every earlier write has been followed by a sleep
\* that has ended.
C2_WriteFlushSleep ==
    /\ []((Fake /\ pc \in { "sleep", "sleeping" }) =>
             (buffer = << >> /\ delivered = written /\ written = slept + 1))
    /\ [][(Fake /\ written' # written) =>
             (written' = written + 1 /\ slept = written /\ now >= wake
              /\ (written > 0 => wake > 0))]_vars

C2_Witness ==
    Fake /\ ~tty /\ pc = "sleeping" /\ written = 2 /\ delivered = 2

\* C3: in fake_data.py with num_columns = n >= 1 the emitted line splits on
\* the configured separator into exactly n fields, the n formatted values;
\* the separator is "," under --csv and three spaces otherwise, and it is the
\* same in every tick.
C3_FieldsAndSeparator ==
    (Fake /\ parse_args(argv).ok) =>
        /\ pc \in ({ "loop", "for" } \cup AfterWrite) => separator = AskedSeparator
        /\ (pc = "flush" /\ NumColumns >= 1) =>
              LET fields == Split(emitted[1], AskedSeparator)
              IN  /\ Len(emitted) = 1
                  /\ Len(fields) = NumColumns
                  /\ fields = data
                  /\ \A k \in 1 .. NumColumns : fields[k] = Str(cols[k].value)

C3_Witness ==
    /\ Fake /\ pc = "flush" /\ ticks = 2
    /\ NumColumns = 2
    /\ parse_args(argv).ns.csv
    /\ Len(Split(emitted[1], << "," >>)) = 2

\* C4: fake_data.py never leaves its loop through a runtime error raised by
\* the computation, whatever the two random draws are.
C4_NoRuntimeError ==
    pc # "ZeroDivisionError"

\* C5: with num_columns = 0 the run is either rejected while the arguments
\* are parsed, with nothing emitted, or every tick emits exactly one empty
\* line and the run never fails in the computation.
C5_ZeroColumns ==
    (Fake /\ parse_args(argv).ok /\ NumColumns = 0) =>
        \/ pc \in { "parse", "usage_error" } /\ ticks = 0 /\ written = 0
        \/ /\ pc \notin { "usage_error", "ZeroDivisionError" }
           /\ \A k \in 1 .. Len(emitted) : emitted[k] = << >>
           /\ pc \in AfterWrite => emitted = << << >> >>
           /\ draws = 0

C5_Witness ==
    /\ Fake /\ parse_args(argv).ok /\ NumColumns = 0
    /\ pc = "sleeping" /\ ticks = 2 /\ written = 2
    /\ emitted = << << >> >>

\* C6: when the command line of fake_data.py does not parse, the process
\* ends before the loop: no tick begins and nothing is written to stdout.
C6_UsageErrorBeforeLoop ==
    (Fake /\ ~parse_args(argv).ok) =>
        /\ pc \in { "parse", "usage_error", "killed" }
        /\ ticks = 0
        /\ written = 0
        /\ buffer = << >>
        /\ delivered = 0

C6_Witness ==
    Fake /\ pc = "usage_error" /\ argv = << "-n", "x" >>

\* C7: every column of a line of fake_data.py, base and noise alike, is
\* computed from one and the same clock reading: none from a later reading
\* than another.
C7_OneClockReading ==
    (Fake /\ pc \in AfterWrite) =>
        \A k \in 1 .. Len(cols), m \in 1 .. Len(cols) :
            /\ cols[k].t_base = cols[k].t_noise
            /\ cols[k].t_base = cols[m].t_base

\* the noise term as the claim C8 writes it, the noise period dividing:
\*   r * amplitude_noise * sin(2*pi*e / (r' * period_noise))
NoiseDividedByPeriod(e, k, kp) ==
    (k * amplitude_noise * Sin(e * RandDen, TimeScale * kp * period_noise)) \div RandDen

\* C8: every value of fake_data.py is
\*   amplitude * sin(2*pi*x/period) + shift
\*     + r * amplitude_noise * sin(2*pi*x / (r' * period_noise)).
C8_NoiseFormula ==
    (Fake /\ pc \in AfterWrite) =>
        \A k \in 1 .. Len(cols) :
            cols[k].value =
                amplitude * Sin(cols[k].t_base - start, period * TimeScale)
                + shift * ValScale
                + NoiseDividedByPeriod(cols[k].t_noise - start, cols[k].r, cols[k].rp)

\* the draws behind the columns computed so far in this tick
DrawsOfTick ==
    { cols[k].r_draw : k \in 1 .. Len(cols) } \cup { cols[k].rp_draw : k \in 1 .. Len(cols) }

C10_HighFreqLine ==
    /\ []((HighFreq /\ pc \in { "hf_sleep", "hf_sleeping", "hf_flush" }) =>
             /\ tick_reads = 1
             /\ x = t - start
             /\ y = hf_amplitude * Sin(t - start, hf_period * TimeScale)
                        + hf_shift * ValScale
             /\ emitted = << Str(t) \o << " " >> \o Str(y) >>
             /\ start = Boot)
    /\ []((HighFreq /\ pc = "hf_sleep") => t = now)
    /\ [][(HighFreq /\ pc \notin { "hf_start" } /\ pc' # "killed") => start' = start]_vars

C10_Witness ==
    /\ HighFreq /\ pc = "hf_sleep" /\ ticks = 2
    /\ t - start > Stall
    /\ y > hf_shift * ValScale

====
